---------------------------- MODULE Spec2Model ----------------------------
(***************************************************************************)
(* A model of backend/src/youtube_scrape.py: the YouTube channel ranking   *)
(* pipeline (search extractor, comment and channel extractors, the two     *)
(* transforms, the KV_STORE hand-off and the rank combiner) and the fuzzy  *)
(* text matcher.                                                           *)
(*                                                                         *)
(* Conventions.  A Python str is a sequence of one-character strings.  A   *)
(* Python float that the code obtains as a quotient of integers is the     *)
(* record [num |-> n, den |-> d] (the rational n/d, d > 0); floats are     *)
(* compared by cross-multiplication.  A call that can raise returns a      *)
(* record whose field exc names the exception ("none" when it returned).   *)
(***************************************************************************)
EXTENDS Integers, Sequences, FiniteSets, Bags, TLC

VARIABLES
    \* fuzzy_similarity(str1, str2): its arguments, its result, its position
    f_str1, f_str2, f_result, f_pc,
    \* extract_search_data: response_list, the pageToken of params ("none"
    \* for the first request), the number of search().list requests issued,
    \* the yielded search_data, its position
    s_response_list, s_page_token, s_requests, s_search_data, s_pc,
    \* extract_comment_thread_data: its argument, the dictionary videos (in
    \* insertion order), the channel being iterated and its video_list, the
    \* video being fetched, data["items"], the commentThreads().list calls
    \* issued (as <<channel_id, video_id, whether it was answered>>), its
    \* position
    c_search_data, c_videos, c_chan, c_video_list, c_vid, c_items, c_calls, c_pc,
    \* the global KV_STORE: key -> the stored dataframe, if any
    KV_STORE,
    \* transform_channel_data and transform_data on given inputs: the query,
    \* the channel_data items, the dataframe transform_data returned, the
    \* position
    r_query, r_channel_data, r_result, r_pc,
    \* the calls of main(query), each with: its position, its query, the
    \* search_data its search node yielded, the position and the value in
    \* hand of its channel chain and of its comment chain, the
    \* comment_thread_df transform_data has read, and the dataframe returned
    m_pc, m_query, m_search_data, m_chan_pc, m_chan_val, m_comm_pc, m_comm_val,
    m_comment_df, m_result,
    \* history: the dataframe each chain of a call yielded under each key, and
    \* the number of times the call stored each key
    m_yielded, m_writes,
    \* extract_channel_data: its argument, sublists (each sublist as the set
    \* of its ids), the index of the sublist being requested, the pageToken of
    \* params, data["items"] (as the bag of its records), the channels().list
    \* requests issued, the continuation tokens the upstream has handed out
    \* for the sublist, its position
    ch_search_data, ch_sublists, ch_batch, ch_page_token, ch_items, ch_requests,
    ch_tokens, ch_pc,
    \* transform_comment_thread_data on a given input: comment_thread_data
    \* ["items"], the dataframe yielded, the position
    t_items, t_df, t_pc

fuzzyVars == <<f_str1, f_str2, f_result, f_pc>>
searchVars == <<s_response_list, s_page_token, s_requests, s_search_data, s_pc>>
commentVars == <<c_search_data, c_videos, c_chan, c_video_list, c_vid, c_items,
                 c_calls, c_pc>>

rankVars == <<r_query, r_channel_data, r_result, r_pc>>

mainVars == <<m_pc, m_query, m_search_data, m_chan_pc, m_chan_val, m_comm_pc,
              m_comm_val, m_comment_df, m_result, m_yielded, m_writes>>

channelVars == <<ch_search_data, ch_sublists, ch_batch, ch_page_token, ch_items,
                 ch_requests, ch_tokens, ch_pc>>

sentimentVars == <<t_items, t_df, t_pc>>

vars == <<fuzzyVars, searchVars, commentVars, KV_STORE, rankVars, mainVars,
          channelVars, sentimentVars>>

-----------------------------------------------------------------------------
(* Bounds of the model *)

\* longest query string given to fuzzy_similarity
MaxQueryLen == 3
\* longest text given to fuzzy_similarity
MaxTextLen == 3
\* longest search_data given to extract_comment_thread_data
MaxSearchLen == 4

-----------------------------------------------------------------------------
(* Strings *)

\* the characters the strings of the model are made of: two lower-case
\* letters, an upper-case letter, and a character that is no word character
Alphabet == {"a", "b", "A", "."}

\* the characters the regular expression \w matches
WordChars == {"a", "b", "A", "0", "1", "2", "5", "9", "_"}

\* str.lower() on one character
LowerChar(c) == IF c = "A" THEN "a" ELSE c

\* str.lower()
Lower(s) == [i \in 1..Len(s) |-> LowerChar(s[i])]

\* s[i:] for a 0-based i with 0 <= i <= len(s)
Suffix(s, i) == SubSeq(s, i + 1, Len(s))

\* all strings over alphabet of length at most n
RECURSIVE StringsUpTo(_, _)
StringsUpTo(alphabet, n) ==
    IF n = 0 THEN {<<>>}
    ELSE LET shorter == StringsUpTo(alphabet, n - 1)
         IN  shorter \cup {Append(s, c) : s \in shorter, c \in alphabet}

\* re.findall(r"\w+", s): the maximal runs of word characters, left to right.
\* words: the runs closed so far; cur: the run being read
RECURSIVE FindallFrom(_, _, _, _)
FindallFrom(s, i, words, cur) ==
    IF i > Len(s)
    THEN IF cur = <<>> THEN words ELSE Append(words, cur)
    ELSE IF s[i] \in WordChars
         THEN FindallFrom(s, i + 1, words, Append(cur, s[i]))
         ELSE FindallFrom(s, i + 1,
                          IF cur = <<>> THEN words ELSE Append(words, cur),
                          <<>>)

FindallWords(s) == FindallFrom(s, 1, <<>>, <<>>)

RECURSIVE SumSeq(_)
SumSeq(s) == IF s = <<>> THEN 0 ELSE Head(s) + SumSeq(Tail(s))

-----------------------------------------------------------------------------
(* Floats as rationals *)

Rat(n, d) == [num |-> n, den |-> d]
RatLess(x, y) == x.num * y.den < y.num * x.den
RatEq(x, y) == x.num * y.den = y.num * x.den
RatLeq(x, y) == x.num * y.den <= y.num * x.den

\* Python's round(n / d) for n >= 0, d > 0: to nearest, ties to even
PyRound(n, d) ==
    LET q == n \div d
        r == n % d
    IN  IF 2 * r > d \/ (2 * r = d /\ q % 2 = 1) THEN q + 1 ELSE q

-----------------------------------------------------------------------------
(* fuzz.ratio: int(round(100 * SequenceMatcher(None, s1, s2).ratio())) *)

\* the length of the longest common run of a from i and b from j (1-based)
RECURSIVE RunLen(_, _, _, _)
RunLen(a, i, b, j) ==
    IF i > Len(a) \/ j > Len(b) \/ a[i] # b[j] THEN 0
    ELSE 1 + RunLen(a, i + 1, b, j + 1)

\* SequenceMatcher.find_longest_match: the longest matching block, of those
\* the one starting earliest in a, and of those the one earliest in b
LongestMatch(a, b) ==
    LET blocks == {<<i, j, RunLen(a, i, b, j)>> : i \in 1..Len(a), j \in 1..Len(b)}
        better(x, y) == \/ x[3] > y[3]
                        \/ x[3] = y[3] /\ x[1] < y[1]
                        \/ x[3] = y[3] /\ x[1] = y[1] /\ x[2] < y[2]
    IN  CHOOSE x \in blocks : \A y \in blocks \ {x} : better(x, y)

\* the number of matched characters: the longest matching block, then the
\* same to its left and to its right (SequenceMatcher.get_matching_blocks)
RECURSIVE MatchingChars(_, _)
MatchingChars(a, b) ==
    IF a = <<>> \/ b = <<>> THEN 0
    ELSE LET m == LongestMatch(a, b)
             i == m[1]
             j == m[2]
             k == m[3]
         IN  IF k = 0 THEN 0
             ELSE k + MatchingChars(SubSeq(a, 1, i - 1), SubSeq(b, 1, j - 1))
                    + MatchingChars(SubSeq(a, i + k, Len(a)), SubSeq(b, j + k, Len(b)))

\* fuzz.ratio(s1, s2) for non-empty s1, s2: 2 * matches / total length, as a
\* rounded percentage
FuzzRatio(s1, s2) == PyRound(200 * MatchingChars(s1, s2), Len(s1) + Len(s2))

-----------------------------------------------------------------------------
(* fuzzy_similarity *)

Returned(x) == [exc |-> "none", num |-> x.num, den |-> x.den]
Raised(e) == [exc |-> e, num |-> 0, den |-> 1]

\* the loop of fuzzy_similarity from offset i (0-based), with best_ratio so
\* far, where every text token missing from a short window is skipped
\* (ratios over zip(pattern_words, text_words)) and the loop never breaks
RECURSIVE FuzzyLoopZip(_, _, _, _)
FuzzyLoopZip(pattern_words, str2, i, best_ratio) ==
    IF i >= Len(str2) THEN Returned(best_ratio)
    ELSE
      LET text_words == FindallWords(Suffix(str2, i))
          n == IF Len(text_words) < Len(pattern_words)
               THEN Len(text_words) ELSE Len(pattern_words)
      IN  IF n = 0 THEN FuzzyLoopZip(pattern_words, str2, i + 1, best_ratio)
          ELSE
            LET ratios == [j \in 1..n |-> FuzzRatio(pattern_words[j], text_words[j])]
                avg_ratio == Rat(SumSeq(ratios), Len(ratios))
            IN  FuzzyLoopZip(pattern_words, str2, i + 1,
                    IF RatLess(best_ratio, avg_ratio) THEN avg_ratio ELSE best_ratio)

FuzzySimilarityZip(str1, str2) ==
    FuzzyLoopZip(FindallWords(Lower(str1)), Lower(str2), 0, Rat(0, 1))

\* the loop of fuzzy_similarity from offset i (0-based), with best_ratio so far
RECURSIVE FuzzyLoop(_, _, _, _)
FuzzyLoop(pattern_words, str2, i, best_ratio) ==
    IF i >= Len(str2) THEN Returned(best_ratio)
    ELSE
      LET text_words == FindallWords(Suffix(str2, i))
      IN  IF Len(text_words) < Len(pattern_words) THEN Returned(best_ratio)
          ELSE IF Len(pattern_words) = 0 THEN Raised("ZeroDivisionError")
          ELSE
            LET ratios == [j \in 1..Len(pattern_words) |->
                              FuzzRatio(pattern_words[j], text_words[j])]
                avg_ratio == Rat(SumSeq(ratios), Len(ratios))
            IN  FuzzyLoop(pattern_words, str2, i + 1,
                    IF RatLess(best_ratio, avg_ratio) THEN avg_ratio ELSE best_ratio)

\* fuzzy_similarity without the two str.lower() calls: case-sensitive
FuzzySimilarityCased(str1, str2) ==
    FuzzyLoop(FindallWords(str1), str2, 0, Rat(0, 1))

FuzzySimilarity(str1, str2) ==
    FuzzyLoop(FindallWords(Lower(str1)), Lower(str2), 0, Rat(0, 1))

\* the inputs of the calls checked
QueryStrings == StringsUpTo(Alphabet, MaxQueryLen)
TextStrings == StringsUpTo(Alphabet, MaxTextLen)

NoResult == [exc |-> "pending", num |-> 0, den |-> 1]

FuzzyIdle ==
    /\ f_str1 = <<>>
    /\ f_str2 = <<>>
    /\ f_result = NoResult
    /\ f_pc = "off"

FuzzyInit ==
    /\ f_str1 \in QueryStrings
    /\ f_str2 \in TextStrings
    /\ f_result = NoResult
    /\ f_pc = "call"

\* one call of fuzzy_similarity(f_str1, f_str2)
FuzzyCall ==
    /\ f_pc = "call"
    /\ f_result' = FuzzySimilarity(f_str1, f_str2)
    /\ f_pc' = IF f_result'.exc = "none" THEN "returned" ELSE "raised"
    /\ UNCHANGED <<f_str1, f_str2>>
    /\ UNCHANGED <<searchVars, commentVars, KV_STORE, rankVars, mainVars,
                   channelVars, sentimentVars>>

-----------------------------------------------------------------------------
(* The upstream API: what the model lets it hold and answer *)

\* the value None
None == "None"

\* the videos of the upstream, and the channel each belongs to
Videos == {"v1", "v2", "v3", "v4"}
ChannelOf(v) == IF v = "v4" THEN "B" ELSE "A"

\* an item of a search response: id.videoId and snippet.channelId
SearchItem(v) == [videoId |-> v, channelId |-> ChannelOf(v)]

\* an item of a search response whose snippet has no channelId: .get gives
\* None
SearchItemNoChannel(v) == [videoId |-> v, channelId |-> None]

\* the "items" a search response can carry
SearchPageItems ==
    { <<>>,
      <<SearchItem("v1")>>,
      <<SearchItem("v2"), SearchItem("v4")>>,
      <<SearchItemNoChannel("v3")>> }

\* the continuation tokens the upstream hands out
PageTokens == {"tok"}

\* a search response
SearchResponses ==
    [items : SearchPageItems, nextPageToken : PageTokens \cup {None}]

-----------------------------------------------------------------------------
(* extract_search_data *)

MAX_PAGES == 5

\* the page cap compared with > instead of >=
PageCapReachedLate(response_list) == Len(response_list) > MAX_PAGES

\* if len(response_list) >= MAX_PAGES: break
PageCapReached(response_list) == Len(response_list) >= MAX_PAGES

\* the (video_id, channel_id) pairs of one response, in item order
RECURSIVE PairsOfItems(_)
PairsOfItems(items) ==
    IF items = <<>> THEN <<>>
    ELSE << <<Head(items).videoId, Head(items).channelId>> >>
         \o PairsOfItems(Tail(items))

\* search_data: the pairs of every response of response_list, in order
RECURSIVE FlattenSearch(_)
FlattenSearch(response_list) ==
    IF response_list = <<>> THEN <<>>
    ELSE PairsOfItems(Head(response_list).items)
         \o FlattenSearch(Tail(response_list))

SearchIdle ==
    /\ s_response_list = <<>>
    /\ s_page_token = None
    /\ s_requests = 0
    /\ s_search_data = <<>>
    /\ s_pc = "off"

SearchInit ==
    /\ s_response_list = <<>>
    /\ s_page_token = None
    /\ s_requests = 0
    /\ s_search_data = <<>>
    /\ s_pc = "loop"

\* the page cap is reached at the top of the loop: break
SearchCapBreak ==
    /\ s_pc = "loop"
    /\ PageCapReached(s_response_list)
    /\ s_pc' = "flatten"
    /\ UNCHANGED <<s_response_list, s_page_token, s_requests, s_search_data>>
    /\ UNCHANGED <<fuzzyVars, commentVars, KV_STORE, rankVars, mainVars,
                   channelVars, sentimentVars>>

\* one iteration whose request succeeds with a continuation token
SearchPageWithToken ==
    /\ s_pc = "loop"
    /\ ~PageCapReached(s_response_list)
    /\ \E response \in SearchResponses :
          /\ response.nextPageToken # None
          /\ s_requests' = s_requests + 1
          /\ s_response_list' = Append(s_response_list, response)
          /\ s_page_token' = response.nextPageToken
    /\ UNCHANGED <<s_search_data, s_pc>>
    /\ UNCHANGED <<fuzzyVars, commentVars, KV_STORE, rankVars, mainVars,
                   channelVars, sentimentVars>>

\* one iteration whose request succeeds with no continuation token: break
SearchLastPage ==
    /\ s_pc = "loop"
    /\ ~PageCapReached(s_response_list)
    /\ \E response \in SearchResponses :
          /\ response.nextPageToken = None
          /\ s_requests' = s_requests + 1
          /\ s_response_list' = Append(s_response_list, response)
    /\ s_pc' = "flatten"
    /\ UNCHANGED <<s_page_token, s_search_data>>
    /\ UNCHANGED <<fuzzyVars, commentVars, KV_STORE, rankVars, mainVars,
                   channelVars, sentimentVars>>

\* one iteration whose request raises HttpError, the request then tried
\* again (a bounded number of times)
SearchHttpErrorRetry ==
    /\ s_pc = "loop"
    /\ ~PageCapReached(s_response_list)
    /\ s_requests <= MAX_PAGES
    /\ s_requests' = s_requests + 1
    /\ UNCHANGED <<s_response_list, s_page_token, s_search_data, s_pc>>
    /\ UNCHANGED <<fuzzyVars, commentVars, KV_STORE, rankVars, mainVars,
                   channelVars, sentimentVars>>

\* one iteration whose request raises HttpError: page_token stays None, break
SearchHttpError ==
    /\ s_pc = "loop"
    /\ ~PageCapReached(s_response_list)
    /\ s_requests' = s_requests + 1
    /\ s_pc' = "flatten"
    /\ UNCHANGED <<s_response_list, s_page_token, s_search_data>>
    /\ UNCHANGED <<fuzzyVars, commentVars, KV_STORE, rankVars, mainVars,
                   channelVars, sentimentVars>>

\* after the loop: flatten response_list and yield search_data
SearchYield ==
    /\ s_pc = "flatten"
    /\ s_search_data' = FlattenSearch(s_response_list)
    /\ s_pc' = "done"
    /\ UNCHANGED <<s_response_list, s_page_token, s_requests>>
    /\ UNCHANGED <<fuzzyVars, commentVars, KV_STORE, rankVars, mainVars,
                   channelVars, sentimentVars>>

-----------------------------------------------------------------------------
(* extract_comment_thread_data *)

\* n = 2: the size of the sample, and the length above which it is drawn
SampleSize == 2

\* the comments of the upstream: the top-level comment of the one thread of
\* a video, and its replies
TopLevelText(video_id) ==
    IF video_id \in {"v1", "v4"} THEN "Good!, Great!, Fantastic!"
    ELSE "Terrible!, Horrible!, Sucks!"
RepliesOf(video_id) ==
    IF video_id = "v1" THEN <<"Terrible!, Horrible!, Sucks!">> ELSE <<>>

\* the response of commentThreads().list for a video: one thread
CommentResponse(video_id) ==
    [items |-> << [videoId |-> video_id,
                   channelId |-> ChannelOf(video_id),
                   textOriginal |-> TopLevelText(video_id),
                   replies |-> RepliesOf(video_id)] >>]

\* the position of channel_id among the keys of videos, 0 when absent
KeyIndex(videos, channel_id) ==
    IF \E k \in 1..Len(videos) : videos[k].channel_id = channel_id
    THEN CHOOSE k \in 1..Len(videos) : videos[k].channel_id = channel_id
    ELSE 0

\* the dictionary videos after the loop over search_data: channel_id ->
\* the video_ids listed with it, keys in insertion order
RECURSIVE GroupByChannel(_, _)
GroupByChannel(search_data, videos) ==
    IF search_data = <<>> THEN videos
    ELSE
      LET video_id == Head(search_data)[1]
          channel_id == Head(search_data)[2]
          k == KeyIndex(videos, channel_id)
      IN  GroupByChannel(Tail(search_data),
            IF k = 0
            THEN Append(videos, [channel_id |-> channel_id,
                                 video_list |-> <<video_id>>])
            ELSE [videos EXCEPT ![k].video_list = Append(@, video_id)])

\* random.sample(video_list, 2): two distinct positions, in drawing order
Samples(video_list) ==
    { <<video_list[i], video_list[j]>> :
        <<i, j>> \in {p \in (1..Len(video_list)) \X (1..Len(video_list)) :
                        p[1] # p[2]} }

\* if len(video_list) > 2
NeedsSampling(video_list) == Len(video_list) > 2

\* the search_data the extractor is given
SearchPairs == {<<v, ChannelOf(v)>> : v \in Videos}

RECURSIVE SeqsUpTo(_, _)
SeqsUpTo(S, n) ==
    IF n = 0 THEN {<<>>}
    ELSE LET shorter == SeqsUpTo(S, n - 1)
         IN  shorter \cup {Append(s, x) : s \in shorter, x \in S}

CommentIdle ==
    /\ c_search_data = <<>>
    /\ c_videos = <<>>
    /\ c_chan = 0
    /\ c_video_list = <<>>
    /\ c_vid = 0
    /\ c_items = <<>>
    /\ c_calls = <<>>
    /\ c_pc = "off"

CommentInit ==
    /\ c_search_data \in SeqsUpTo(SearchPairs, MaxSearchLen)
    /\ c_videos = <<>>
    /\ c_chan = 0
    /\ c_video_list = <<>>
    /\ c_vid = 0
    /\ c_items = <<>>
    /\ c_calls = <<>>
    /\ c_pc = "start"

\* the first loop: build the dictionary videos
CommentBuild ==
    /\ c_pc = "start"
    /\ c_videos' = GroupByChannel(c_search_data, <<>>)
    /\ c_chan' = 1
    /\ c_pc' = "channel"
    /\ UNCHANGED <<c_search_data, c_video_list, c_vid, c_items, c_calls>>
    /\ UNCHANGED <<fuzzyVars, searchVars, KV_STORE, rankVars, mainVars,
                   channelVars, sentimentVars>>

\* the next channel has more than two videos listed: sample two of them
CommentSample ==
    /\ c_pc = "channel"
    /\ c_chan <= Len(c_videos)
    /\ NeedsSampling(c_videos[c_chan].video_list)
    /\ c_video_list' \in Samples(c_videos[c_chan].video_list)
    /\ c_vid' = 1
    /\ c_pc' = "video"
    /\ UNCHANGED <<c_search_data, c_videos, c_chan, c_items, c_calls>>
    /\ UNCHANGED <<fuzzyVars, searchVars, KV_STORE, rankVars, mainVars,
                   channelVars, sentimentVars>>

\* the next channel has at most two videos listed: take them all
CommentTakeAll ==
    /\ c_pc = "channel"
    /\ c_chan <= Len(c_videos)
    /\ ~NeedsSampling(c_videos[c_chan].video_list)
    /\ c_video_list' = c_videos[c_chan].video_list
    /\ c_vid' = 1
    /\ c_pc' = "video"
    /\ UNCHANGED <<c_search_data, c_videos, c_chan, c_items, c_calls>>
    /\ UNCHANGED <<fuzzyVars, searchVars, KV_STORE, rankVars, mainVars,
                   channelVars, sentimentVars>>

\* the fetch of the next video succeeds: its response is appended
CommentFetchOk ==
    /\ c_pc = "video"
    /\ c_vid <= Len(c_video_list)
    /\ c_calls' = Append(c_calls, <<c_videos[c_chan].channel_id, c_video_list[c_vid], TRUE>>)
    /\ c_items' = Append(c_items, CommentResponse(c_video_list[c_vid]))
    /\ c_vid' = c_vid + 1
    /\ UNCHANGED <<c_search_data, c_videos, c_chan, c_video_list, c_pc>>
    /\ UNCHANGED <<fuzzyVars, searchVars, KV_STORE, rankVars, mainVars,
                   channelVars, sentimentVars>>

\* the fetch of the next video raises HttpError and the error ends the
\* extractor with what it has
CommentFetchHttpErrorAborts ==
    /\ c_pc = "video"
    /\ c_vid <= Len(c_video_list)
    /\ c_calls' = Append(c_calls, <<c_videos[c_chan].channel_id, c_video_list[c_vid], FALSE>>)
    /\ c_pc' = "done"
    /\ UNCHANGED <<c_search_data, c_videos, c_chan, c_video_list, c_vid, c_items>>
    /\ UNCHANGED <<fuzzyVars, searchVars, KV_STORE, rankVars, mainVars,
                   channelVars, sentimentVars>>

\* the fetch of the next video raises HttpError: pass
CommentFetchHttpError ==
    /\ c_pc = "video"
    /\ c_vid <= Len(c_video_list)
    /\ c_calls' = Append(c_calls, <<c_videos[c_chan].channel_id, c_video_list[c_vid], FALSE>>)
    /\ c_vid' = c_vid + 1
    /\ UNCHANGED <<c_search_data, c_videos, c_chan, c_video_list, c_items, c_pc>>
    /\ UNCHANGED <<fuzzyVars, searchVars, KV_STORE, rankVars, mainVars,
                   channelVars, sentimentVars>>

\* the videos of the channel are exhausted: on to the next channel
CommentChannelDone ==
    /\ c_pc = "video"
    /\ c_vid > Len(c_video_list)
    /\ c_chan' = c_chan + 1
    /\ c_pc' = "channel"
    /\ UNCHANGED <<c_search_data, c_videos, c_video_list, c_vid, c_items, c_calls>>
    /\ UNCHANGED <<fuzzyVars, searchVars, KV_STORE, rankVars, mainVars,
                   channelVars, sentimentVars>>

\* the channels are exhausted: yield data
CommentYield ==
    /\ c_pc = "channel"
    /\ c_chan > Len(c_videos)
    /\ c_pc' = "done"
    /\ UNCHANGED <<c_search_data, c_videos, c_chan, c_video_list, c_vid, c_items,
                   c_calls>>
    /\ UNCHANGED <<fuzzyVars, searchVars, KV_STORE, rankVars, mainVars,
                   channelVars, sentimentVars>>

-----------------------------------------------------------------------------
(* Values of dataframe columns and their order *)

\* the code point of a character, for the characters of the model
CharCode(c) ==
    CASE c = " " -> 32 [] c = "." -> 46 [] c = ":" -> 58
      [] c = "0" -> 48 [] c = "1" -> 49 [] c = "2" -> 50 [] c = "5" -> 53
      [] c = "9" -> 57 [] c = "A" -> 65 [] c = "_" -> 95
      [] c = "a" -> 97 [] c = "b" -> 98

\* a < b for two Python str: lexicographic by code point
RECURSIVE StrLess(_, _)
StrLess(a, b) ==
    IF b = <<>> THEN FALSE
    ELSE IF a = <<>> THEN TRUE
    ELSE IF Head(a) # Head(b) THEN CharCode(Head(a)) < CharCode(Head(b))
    ELSE StrLess(Tail(a), Tail(b))

\* the number a string of decimal digits writes
RECURSIVE StrToInt(_)
StrToInt(s) ==
    IF s = <<>> THEN 0
    ELSE 10 * StrToInt(SubSeq(s, 1, Len(s) - 1)) + (CharCode(s[Len(s)]) - 48)

\* x < y within a column: kind "str" for a column of str (object dtype),
\* "float" for a column of floats
ValueLess(kind, x, y) == IF kind = "str" THEN StrLess(x, y) ELSE RatLess(x, y)
ValueEq(kind, x, y) == ~ValueLess(kind, x, y) /\ ~ValueLess(kind, y, x)

\* rank(method="min", ascending=False): one more than the number of rows
\* with a larger value
MinRank(kind, values, i) ==
    1 + Cardinality({j \in 1..Len(values) : ValueLess(kind, values[i], values[j])})

\* rank(method="dense", ascending=False) of row i: one more than the number
\* of distinct values larger than the row's
DenseRank(kind, values, i) ==
    1 + Cardinality({j \in 1..Len(values) :
                        /\ ValueLess(kind, values[i], values[j])
                        /\ \A k \in 1..(j - 1) : ~ValueEq(kind, values[k], values[j])})

-----------------------------------------------------------------------------
(* transform_channel_data *)

\* f"{title} : {description}"
TitleAndDescription(title, description) ==
    title \o <<" ", ":", " ">> \o description

\* the row of one channel_item, given its similarity
ChannelRow(channel_item, sim_score) ==
    [Channel_Id |-> channel_item.id,
     Title |-> channel_item.title,
     Url |-> <<"https://www.youtube.com/", channel_item.customUrl>>,
     Description |-> channel_item.description,
     Videos |-> channel_item.videoCount,
     Subscribers |-> channel_item.subscriberCount,
     Similarity |-> Rat(sim_score.num, sim_score.den)]

\* the loop over channel_data["items"]: the rows so far, or the exception
\* fuzzy_similarity raised
RECURSIVE ChannelRows(_, _, _)
ChannelRows(items, query, data) ==
    IF items = <<>> THEN [exc |-> "none", df |-> data]
    ELSE
      LET channel_item == Head(items)
          sim_score == FuzzySimilarity(query,
                          TitleAndDescription(channel_item.title,
                                              channel_item.description))
      IN  IF sim_score.exc # "none" THEN [exc |-> sim_score.exc, df |-> <<>>]
          ELSE ChannelRows(Tail(items), query,
                           Append(data, ChannelRow(channel_item, sim_score)))

\* transform_channel_data(channel_data, query): the dataframe it yields
\* under the key "channel_data"
TransformChannelData(items, query) == ChannelRows(items, query, <<>>)

-----------------------------------------------------------------------------
(* transform_data *)

\* a joined row
JoinedRow(channel_row, comment_row) ==
    [Channel_Id |-> channel_row.Channel_Id,
     Title |-> channel_row.Title,
     Url |-> channel_row.Url,
     Description |-> channel_row.Description,
     Videos |-> channel_row.Videos,
     Subscribers |-> channel_row.Subscribers,
     Similarity |-> channel_row.Similarity,
     Score |-> comment_row.Score]

\* the rows of comment_thread_df with the key of channel_row, joined to it
RECURSIVE MatchesOf(_, _)
MatchesOf(channel_row, comment_thread_df) ==
    IF comment_thread_df = <<>> THEN <<>>
    ELSE (IF Head(comment_thread_df).Channel_Id = channel_row.Channel_Id
          THEN <<JoinedRow(channel_row, Head(comment_thread_df))>>
          ELSE <<>>)
         \o MatchesOf(channel_row, Tail(comment_thread_df))

\* pd.merge(..., how="left"): a channel row with no match is kept, its Score
\* missing (here 0)
RECURSIVE MergeLeft(_, _)
MergeLeft(channel_df, comment_thread_df) ==
    IF channel_df = <<>> THEN <<>>
    ELSE (IF MatchesOf(Head(channel_df), comment_thread_df) = <<>>
          THEN <<JoinedRow(Head(channel_df), [Score |-> Rat(0, 1)])>>
          ELSE MatchesOf(Head(channel_df), comment_thread_df))
         \o MergeLeft(Tail(channel_df), comment_thread_df)

\* pd.merge(channel_df, comment_thread_df, on="Channel_Id"): the inner join,
\* in the order of the left keys
RECURSIVE Merge(_, _)
Merge(channel_df, comment_thread_df) ==
    IF channel_df = <<>> THEN <<>>
    ELSE MatchesOf(Head(channel_df), comment_thread_df)
         \o Merge(Tail(channel_df), comment_thread_df)

Column(df, name) == [i \in 1..Len(df) |-> df[i][name]]

\* the four rank columns and Average_Rank = (sum of the four) / 4.0
WithRanks(df) ==
    [i \in 1..Len(df) |->
        LET videos_rank == DenseRank("str", Column(df, "Videos"), i)
            subscribers_rank == DenseRank("str", Column(df, "Subscribers"), i)
            score_rank == DenseRank("float", Column(df, "Score"), i)
            similarity_rank == DenseRank("float", Column(df, "Similarity"), i)
        IN  [Channel_Id |-> df[i].Channel_Id,
             Title |-> df[i].Title,
             Url |-> df[i].Url,
             Description |-> df[i].Description,
             Videos |-> df[i].Videos,
             Subscribers |-> df[i].Subscribers,
             Similarity |-> df[i].Similarity,
             Score |-> df[i].Score,
             Videos_Rank |-> videos_rank,
             Subscribers_Rank |-> subscribers_rank,
             Score_Rank |-> score_rank,
             Similarity_Rank |-> similarity_rank,
             Average_Rank |-> Rat(videos_rank + subscribers_rank + score_rank
                                  + similarity_rank, 4)]]

\* row put into the sorted rows before the first row it strictly precedes,
\* so that rows of equal Average_Rank keep their order
RECURSIVE InsertBy(_, _, _)
InsertBy(row, sorted, descending) ==
    IF sorted = <<>> THEN <<row>>
    ELSE IF (IF descending
             THEN RatLess(Head(sorted).Average_Rank, row.Average_Rank)
             ELSE RatLess(row.Average_Rank, Head(sorted).Average_Rank))
         THEN <<row>> \o sorted
         ELSE <<Head(sorted)>> \o InsertBy(row, Tail(sorted), descending)

RECURSIVE SortFrom(_, _, _)
SortFrom(df, sorted, descending) ==
    IF df = <<>> THEN sorted
    ELSE SortFrom(Tail(df), InsertBy(Head(df), sorted, descending), descending)

\* sort_values(by="Average_Rank", ascending=False)
SortByAverageRankDescending(df) == SortFrom(df, <<>>, TRUE)

\* sort_values(by="Average_Rank"): ascending; rows of equal Average_Rank keep
\* their order
SortByAverageRank(df) == SortFrom(df, <<>>, FALSE)

\* a key of KV_STORE that holds nothing, and one that holds df
Absent == [present |-> FALSE, df |-> <<>>]
Stored(df) == [present |-> TRUE, df |-> df]

\* the merge, the rank columns, Average_Rank and the sort of transform_data
Combine(channel_df, comment_thread_df) ==
    SortByAverageRank(WithRanks(Merge(channel_df, comment_thread_df)))

\* transform_data(): KeyError when a key was never stored, else the combined
\* dataframe
TransformData(kv_store) ==
    IF ~kv_store["comment_thread_data"].present
    THEN [exc |-> "KeyError", df |-> <<>>]
    ELSE IF ~kv_store["channel_data"].present
    THEN [exc |-> "KeyError", df |-> <<>>]
    ELSE [exc |-> "none",
          df |-> Combine(kv_store["channel_data"].df,
                         kv_store["comment_thread_data"].df)]

-----------------------------------------------------------------------------
(* transform_channel_data, store_results and transform_data on given inputs *)

Channels == {"A", "B", "C"}
ChannelOrder == <<"A", "B", "C">>

\* the strings the upstream gives for statistics.videoCount and
\* statistics.subscriberCount
VideoCounts == {<<"1", "0", "0">>, <<"5", "0">>}
SubscriberCounts == {<<"1", "0", "0", "0">>, <<"2", "0", "0", "0">>}
Titles == {<<"a">>, <<"b">>}

\* the channel items the upstream can give for a channel
ChannelItemsOf(id) ==
    [id : {id}, title : Titles, description : {<<>>}, customUrl : {<<>>},
     videoCount : VideoCounts, subscriberCount : SubscriberCounts]

\* the channel_data["items"] checked: for each channel in order, no item or
\* one item
RECURSIVE ChannelDataFrom(_)
ChannelDataFrom(k) ==
    IF k > Len(ChannelOrder) THEN {<<>>}
    ELSE LET rest == ChannelDataFrom(k + 1)
         IN  rest \cup {<<item>> \o r : item \in ChannelItemsOf(ChannelOrder[k]),
                                         r \in rest}

\* the mean sentiment scores checked, in thousandths
Scores == {Rat(200, 1), Rat(800, 1)}

\* the comment_thread_data dataframes checked: for each channel in order
\* (groupby sorts by Channel_Id), no row or one row
RECURSIVE CommentDfFrom(_)
CommentDfFrom(k) ==
    IF k > Len(ChannelOrder) THEN {<<>>}
    ELSE LET rest == CommentDfFrom(k + 1)
         IN  rest \cup {<<[Channel_Id |-> ChannelOrder[k], Score |-> sc]>> \o r :
                            sc \in Scores, r \in rest}

RankQueries == {<<"a">>}

NoFrame == [exc |-> "pending", df |-> <<>>]

RankIdle ==
    /\ r_query = <<>>
    /\ r_channel_data = <<>>
    /\ r_result = NoFrame
    /\ r_pc = "off"

RankInit ==
    /\ r_query \in RankQueries
    /\ r_channel_data \in ChannelDataFrom(1)
    /\ r_result = NoFrame
    /\ r_pc = "channel"

StoreIdle == KV_STORE = [key \in {"channel_data", "comment_thread_data"} |-> Absent]

\* the store when the comment branch has stored its dataframe
StoreWithComments ==
    \E df \in CommentDfFrom(1) :
        KV_STORE = [key \in {"channel_data", "comment_thread_data"} |->
                       IF key = "comment_thread_data" THEN Stored(df) ELSE Absent]

\* transform_channel_data yields and store_results stores the dataframe
RankStoreChannel ==
    /\ r_pc = "channel"
    /\ LET yielded == TransformChannelData(r_channel_data, r_query)
       IN  /\ yielded.exc = "none"
           /\ KV_STORE' = [KV_STORE EXCEPT !["channel_data"] = Stored(yielded.df)]
    /\ r_pc' = "combine"
    /\ UNCHANGED <<r_query, r_channel_data, r_result>>
    /\ UNCHANGED <<fuzzyVars, searchVars, commentVars, mainVars, channelVars, sentimentVars>>

\* transform_data()
RankCombine ==
    /\ r_pc = "combine"
    /\ r_result' = TransformData(KV_STORE)
    /\ r_pc' = "done"
    /\ UNCHANGED <<r_query, r_channel_data, KV_STORE>>
    /\ UNCHANGED <<fuzzyVars, searchVars, commentVars, mainVars, channelVars, sentimentVars>>

-----------------------------------------------------------------------------
(* transform_comment_thread_data *)

\* a comment with words of both polarities
TouchOfGrey ==
    "The shoe is on the hand it fits, there's really nothing much to it "
    \o "Whistle through your teeth and spit 'cause it's alright "
    \o "Oh, well, a touch of grey, kinda suits you anyway "
    \o "That was all I had to say and it's alright"

\* perform_sentiment_analysis(text): the "pos" score of VADER in
\* thousandths, for the texts whose score the repository's tests fix; the
\* other texts of the model have no word of positive valence
PerformSentimentAnalysis(text) ==
    CASE text = "Good!, Great!, Fantastic!" -> 691
      [] text = TouchOfGrey -> 226
      [] OTHER -> 0

\* the sample of the top-level comment only, the replies left out
CommentItemSamplesTopLevel(comment_item) ==
    << <<comment_item.channelId, PerformSentimentAnalysis(comment_item.textOriginal)>> >>

\* the (channel_id, score) samples of one comment_item: its top-level
\* comment, then its replies
CommentItemSamples(comment_item) ==
    << <<comment_item.channelId, PerformSentimentAnalysis(comment_item.textOriginal)>> >>
    \o [k \in 1..Len(comment_item.replies) |->
            <<comment_item.channelId, PerformSentimentAnalysis(comment_item.replies[k])>>]

RECURSIVE ResponseSamples(_)
ResponseSamples(comment_items) ==
    IF comment_items = <<>> THEN <<>>
    ELSE CommentItemSamples(Head(comment_items)) \o ResponseSamples(Tail(comment_items))

\* data: the samples of every response of comment_thread_data["items"]
RECURSIVE AllSamples(_)
AllSamples(items) ==
    IF items = <<>> THEN <<>>
    ELSE ResponseSamples(Head(items).items) \o AllSamples(Tail(items))

\* the scores of the samples of channel_id
RECURSIVE ScoresOf(_, _)
ScoresOf(data, channel_id) ==
    IF data = <<>> THEN <<>>
    ELSE (IF Head(data)[1] = channel_id THEN <<Head(data)[2]>> ELSE <<>>)
         \o ScoresOf(Tail(data), channel_id)

\* df.groupby("Channel_Id")["Score"].mean().reset_index(): one row for each
\* channel that has a sample, in the order of the channel ids
RECURSIVE GroupMeans(_, _)
GroupMeans(data, k) ==
    IF k > Len(ChannelOrder) THEN <<>>
    ELSE LET scores == ScoresOf(data, ChannelOrder[k])
         IN  (IF scores = <<>> THEN <<>>
              ELSE <<[Channel_Id |-> ChannelOrder[k],
                      Score |-> Rat(SumSeq(scores), Len(scores))]>>)
             \o GroupMeans(data, k + 1)

\* transform_comment_thread_data(comment_thread_data): the dataframe it
\* yields under the key "comment_thread_data"
TransformCommentThreadData(items) == GroupMeans(AllSamples(items), 1)

-----------------------------------------------------------------------------
(* transform_comment_thread_data on given inputs *)

\* the most responses in the comment_thread_data given to the transform
MaxResponses == 2

\* the comment threads a response can carry: the thread's channel, its
\* top-level comment and its replies
Threads ==
    [videoId : {"v1"}, channelId : {"A", "B"},
     textOriginal : {"Good!, Great!, Fantastic!"}, replies : {<<>>}]
    \cup
    [videoId : {"v2"}, channelId : {"A", "B"},
     textOriginal : {"Terrible!, Horrible!, Sucks!"},
     replies : {<<"Terrible!, Horrible!, Sucks!", "Good!, Great!, Fantastic!">>}]
    \cup
    [videoId : {"v3"}, channelId : {"A"},
     textOriginal : {TouchOfGrey}, replies : {<<>>}]

\* the responses of commentThreads().list: no thread, one or two
ThreadResponses == {[items |-> l] : l \in SeqsUpTo(Threads, 2)}

SentimentIdle ==
    /\ t_items = <<>>
    /\ t_df = <<>>
    /\ t_pc = "off"

SentimentInit ==
    /\ t_items \in SeqsUpTo(ThreadResponses, MaxResponses)
    /\ t_df = <<>>
    /\ t_pc = "call"

\* transform_comment_thread_data yields ("comment_thread_data", result_df)
SentimentTransform ==
    /\ t_pc = "call"
    /\ t_df' = TransformCommentThreadData(t_items)
    /\ t_pc' = "done"
    /\ UNCHANGED t_items
    /\ UNCHANGED <<fuzzyVars, searchVars, commentVars, KV_STORE, rankVars, mainVars,
                   channelVars>>

-----------------------------------------------------------------------------
(* extract_channel_data *)

\* chunk_size = 10
chunk_size == 10

\* the most distinct channels in the search_data given to the extractor
MaxChannels == 11
\* the most continuation tokens the upstream hands out for one sublist
MaxTokens == 3

\* the channel ids of the upstream
AllChannelIds == <<"A", "B", "C", "D", "E", "F", "G", "H", "I", "J", "K", "L", "M">>

\* the search_data given: d pairs of d distinct channels, then (dup) the
\* first pair once more, then (missing) a pair whose channel_id is None
ChannelSearchData(d, dup, missing) ==
    [k \in 1..d |-> <<"v1", AllChannelIds[k]>>]
    \o (IF dup /\ d > 0 THEN << <<"v1", AllChannelIds[1]>> >> ELSE <<>>)
    \o (IF missing THEN << <<"v3", None>> >> ELSE <<>>)

\* channel_ids: the set built by the loop over search_data
ChannelIdSet(search_data) == {search_data[k][2] : k \in 1..Len(search_data)}

\* the members of channel_ids in the order of AllChannelIds, None last
RECURSIVE InOrderFrom(_, _)
InOrderFrom(channel_ids, k) ==
    IF k > Len(AllChannelIds)
    THEN IF None \in channel_ids THEN <<None>> ELSE <<>>
    ELSE (IF AllChannelIds[k] \in channel_ids THEN <<AllChannelIds[k]>> ELSE <<>>)
         \o InOrderFrom(channel_ids, k + 1)

\* list(channel_ids): the iteration order of a set of str follows the hashes
\* of the strings, so the list can come in any order.  Two orders that put
\* the same ids into each run of chunk_size positions give the same
\* sublists up to the order inside a sublist; the lists taken are one for
\* each way of distributing the ids over the runs
RECURSIVE ChannelIdOrders(_)
ChannelIdOrders(channel_ids) ==
    IF Cardinality(channel_ids) <= chunk_size
    THEN {InOrderFrom(channel_ids, 1)}
    ELSE UNION {{InOrderFrom(run, 1) \o rest :
                    rest \in ChannelIdOrders(channel_ids \ run)} :
                run \in {r \in SUBSET channel_ids : Cardinality(r) = chunk_size}}

\* the whole list as one sublist, whatever its length
SublistsOne(channel_id_list) ==
    IF channel_id_list = <<>> THEN <<>> ELSE <<channel_id_list>>

\* [channel_id_list[i : i + chunk_size] for i in range(0, len(...), chunk_size)]
RECURSIVE Sublists(_)
Sublists(channel_id_list) ==
    IF channel_id_list = <<>> THEN <<>>
    ELSE IF Len(channel_id_list) <= chunk_size THEN <<channel_id_list>>
    ELSE <<SubSeq(channel_id_list, 1, chunk_size)>>
         \o Sublists(SubSeq(channel_id_list, chunk_size + 1, Len(channel_id_list)))

\* the ids of a sublist, their order left out
IdsOf(sublist) == {sublist[k] : k \in 1..Len(sublist)}

\* ",".join(sublist) raises TypeError when an element is no str
JoinRaises(ids) == None \in ids

\* the channel item the upstream holds for a channel
ChannelRecord(id) ==
    [id |-> id,
     title |-> IF id = "A" THEN <<"a">> ELSE <<"b">>,
     description |-> <<>>,
     customUrl |-> <<>>,
     videoCount |-> IF id = "A" THEN <<"1", "0", "0">> ELSE <<"5", "0">>,
     subscriberCount |-> IF id = "A" THEN <<"1", "0", "0", "0">>
                         ELSE <<"2", "0", "0", "0">>]

\* the "items" of a channels().list response that carries a continuation
\* token: the record of every id asked for, in whatever order
ChannelPageItems(ids) == SetToBag({ChannelRecord(id) : id \in ids})

\* the "items" a channels().list response without a token can carry: the
\* record of every id asked for, or nothing
ChannelResponseItems(ids) == {ChannelPageItems(ids), EmptyBag}

ChannelIdle ==
    /\ ch_search_data = <<>>
    /\ ch_sublists = <<>>
    /\ ch_batch = 0
    /\ ch_page_token = None
    /\ ch_items = EmptyBag
    /\ ch_requests = <<>>
    /\ ch_tokens = 0
    /\ ch_pc = "off"

ChannelInit ==
    /\ \E d \in 0..MaxChannels : \E dup, missing \in BOOLEAN :
          ch_search_data = ChannelSearchData(d, dup, missing)
    /\ ch_sublists = <<>>
    /\ ch_batch = 0
    /\ ch_page_token = None
    /\ ch_items = EmptyBag
    /\ ch_requests = <<>>
    /\ ch_tokens = 0
    /\ ch_pc = "start"

channelOthers == <<fuzzyVars, searchVars, commentVars, KV_STORE, rankVars, mainVars, sentimentVars>>

\* the set of channel ids, its list and the sublists
ChannelBuild ==
    /\ ch_pc = "start"
    /\ \E channel_id_list \in ChannelIdOrders(ChannelIdSet(ch_search_data)) :
          ch_sublists' = [b \in 1..Len(Sublists(channel_id_list)) |->
                             IdsOf(Sublists(channel_id_list)[b])]
    /\ ch_batch' = 1
    /\ ch_pc' = "sublist"
    /\ UNCHANGED <<ch_search_data, ch_page_token, ch_items, ch_requests, ch_tokens>>
    /\ UNCHANGED channelOthers

\* the next sublist: channel_ids_str and params are built
ChannelSublist ==
    /\ ch_pc = "sublist"
    /\ ch_batch <= Len(ch_sublists)
    /\ ~JoinRaises(ch_sublists[ch_batch])
    /\ ch_page_token' = None
    /\ ch_tokens' = 0
    /\ ch_pc' = "request"
    /\ UNCHANGED <<ch_search_data, ch_sublists, ch_batch, ch_items, ch_requests>>
    /\ UNCHANGED channelOthers

\* the next sublist holds None: the join raises TypeError out of the extractor
ChannelJoinTypeError ==
    /\ ch_pc = "sublist"
    /\ ch_batch <= Len(ch_sublists)
    /\ JoinRaises(ch_sublists[ch_batch])
    /\ ch_pc' = "TypeError"
    /\ UNCHANGED <<ch_search_data, ch_sublists, ch_batch, ch_page_token, ch_items,
                   ch_requests, ch_tokens>>
    /\ UNCHANGED channelOthers

\* the request sent with the current params, whether it was answered, and
\* the items of the answer
ChannelRequest(ok, items) ==
    [id |-> ch_sublists[ch_batch], pageToken |-> ch_page_token, ok |-> ok,
     items |-> items]

\* one request answered with a continuation token: the items are added and
\* the loop goes on with the token
ChannelPageWithToken ==
    /\ ch_pc = "request"
    /\ ch_tokens < MaxTokens
    /\ \E token \in PageTokens :
          /\ ch_items' = ch_items (+) ChannelPageItems(ch_sublists[ch_batch])
          /\ ch_page_token' = token
          /\ ch_requests' = Append(ch_requests,
                ChannelRequest(TRUE, ChannelPageItems(ch_sublists[ch_batch])))
    /\ ch_tokens' = ch_tokens + 1
    /\ UNCHANGED <<ch_search_data, ch_sublists, ch_batch, ch_pc>>
    /\ UNCHANGED channelOthers

\* one request answered with no continuation token: the items are added,
\* break, on to the next sublist
ChannelLastPage ==
    /\ ch_pc = "request"
    /\ \E items \in ChannelResponseItems(ch_sublists[ch_batch]) :
          /\ ch_items' = ch_items (+) items
          /\ ch_requests' = Append(ch_requests, ChannelRequest(TRUE, items))
    /\ ch_batch' = ch_batch + 1
    /\ ch_pc' = "sublist"
    /\ UNCHANGED <<ch_search_data, ch_sublists, ch_page_token, ch_tokens>>
    /\ UNCHANGED channelOthers

\* one request raises HttpError and the error ends the extractor with what
\* it has
ChannelHttpErrorAborts ==
    /\ ch_pc = "request"
    /\ ch_requests' = Append(ch_requests, ChannelRequest(FALSE, EmptyBag))
    /\ ch_pc' = "done"
    /\ UNCHANGED <<ch_search_data, ch_sublists, ch_batch, ch_page_token, ch_items,
                   ch_tokens>>
    /\ UNCHANGED channelOthers

\* one request raises HttpError: page_token stays None, break, on to the next
\* sublist
ChannelHttpError ==
    /\ ch_pc = "request"
    /\ ch_requests' = Append(ch_requests, ChannelRequest(FALSE, EmptyBag))
    /\ ch_batch' = ch_batch + 1
    /\ ch_pc' = "sublist"
    /\ UNCHANGED <<ch_search_data, ch_sublists, ch_page_token, ch_items, ch_tokens>>
    /\ UNCHANGED channelOthers

\* the sublists are exhausted: yield data
ChannelYield ==
    /\ ch_pc = "sublist"
    /\ ch_batch > Len(ch_sublists)
    /\ ch_pc' = "done"
    /\ UNCHANGED <<ch_search_data, ch_sublists, ch_batch, ch_page_token, ch_items,
                   ch_requests, ch_tokens>>
    /\ UNCHANGED channelOthers

-----------------------------------------------------------------------------
(* main: the graph of one call, and calls running at the same time *)

\* the calls of main that the /query/ endpoint is running
Calls == {1, 2}

\* their query strings: two words and a string with no word in it
Queries == {<<"a">>, <<"b">>, <<".">>}

Keys == {"channel_data", "comment_thread_data"}

\* the response_list that the search node can end with
MainResponseLists ==
    {<<>>} \cup {<<response>> : response \in SearchResponses}

\* list(channel_ids): the distinct channel ids of search_data in some order
ChannelIdLists(search_data) ==
    LET channel_ids == {search_data[k][2] : k \in 1..Len(search_data)}
    IN  {l \in SeqsUpTo(channel_ids, Cardinality(channel_ids)) :
            /\ Len(l) = Cardinality(channel_ids)
            /\ {l[k] : k \in 1..Len(l)} = channel_ids}

\* the video_ids extract_comment_thread_data can select, channel by channel
RECURSIVE SelectedVideos(_)
SelectedVideos(videos) ==
    IF videos = <<>> THEN {<<>>}
    ELSE LET video_list == Head(videos).video_list
             choices == IF NeedsSampling(video_list) THEN Samples(video_list)
                        ELSE {video_list}
         IN  {sel \o rest : sel \in choices, rest \in SelectedVideos(Tail(videos))}

\* the responses of the fetches of selected that succeed (ok[k]), in order
RECURSIVE FetchedItems(_, _)
FetchedItems(selected, ok) ==
    IF selected = <<>> THEN <<>>
    ELSE (IF Head(ok) THEN <<CommentResponse(Head(selected))>> ELSE <<>>)
         \o FetchedItems(Tail(selected), Tail(ok))

NoYield == [key \in Keys |-> Absent]

MainIdle ==
    /\ m_pc = [c \in Calls |-> "off"]
    /\ m_query = [c \in Calls |-> <<>>]
    /\ m_search_data = [c \in Calls |-> <<>>]
    /\ m_chan_pc = [c \in Calls |-> "wait"]
    /\ m_chan_val = [c \in Calls |-> <<>>]
    /\ m_comm_pc = [c \in Calls |-> "wait"]
    /\ m_comm_val = [c \in Calls |-> <<>>]
    /\ m_comment_df = [c \in Calls |-> <<>>]
    /\ m_result = [c \in Calls |-> <<>>]
    /\ m_yielded = [c \in Calls |-> NoYield]
    /\ m_writes = [c \in Calls |-> [key \in Keys |-> 0]]

MainInit ==
    /\ m_pc = [c \in Calls |-> "idle"]
    /\ m_query = [c \in Calls |-> <<>>]
    /\ m_search_data = [c \in Calls |-> <<>>]
    /\ m_chan_pc = [c \in Calls |-> "wait"]
    /\ m_chan_val = [c \in Calls |-> <<>>]
    /\ m_comm_pc = [c \in Calls |-> "wait"]
    /\ m_comm_val = [c \in Calls |-> <<>>]
    /\ m_comment_df = [c \in Calls |-> <<>>]
    /\ m_result = [c \in Calls |-> <<>>]
    /\ m_yielded = [c \in Calls |-> NoYield]
    /\ m_writes = [c \in Calls |-> [key \in Keys |-> 0]]

mainOthers == <<fuzzyVars, searchVars, commentVars, rankVars, channelVars, sentimentVars>>

\* do_query calls main(query): the graph is built and bonobo.run starts
MainStart(c) ==
    /\ m_pc[c] = "idle"
    /\ \E query \in Queries :
          /\ \A d \in Calls \ {c} : m_pc[d] # "idle" => m_query[d] # query
          /\ m_query' = [m_query EXCEPT ![c] = query]
    /\ m_pc' = [m_pc EXCEPT ![c] = "search"]
    /\ UNCHANGED <<m_search_data, m_chan_pc, m_chan_val, m_comm_pc, m_comm_val,
                   m_comment_df, m_result, m_yielded, m_writes, KV_STORE>>
    /\ UNCHANGED mainOthers

\* the node extract_search_data runs to its yield; its output goes to the
\* two chains
MainSearch(c) ==
    /\ m_pc[c] = "search"
    /\ \E response_list \in MainResponseLists :
          m_search_data' = [m_search_data EXCEPT ![c] = FlattenSearch(response_list)]
    /\ m_pc' = [m_pc EXCEPT ![c] = "branches"]
    /\ m_chan_pc' = [m_chan_pc EXCEPT ![c] = "extract"]
    /\ m_comm_pc' = [m_comm_pc EXCEPT ![c] = "extract"]
    /\ UNCHANGED <<m_query, m_chan_val, m_comm_val, m_comment_df, m_result,
                   m_yielded, m_writes, KV_STORE>>
    /\ UNCHANGED mainOthers

\* the node extract_channel_data, every request answered with the items of
\* the ids asked for and no continuation token
MainExtractChannels(c) ==
    /\ m_chan_pc[c] = "extract"
    /\ \E channel_id_list \in ChannelIdLists(m_search_data[c]) :
          /\ ~JoinRaises(IdsOf(channel_id_list))
          /\ m_chan_val' = [m_chan_val EXCEPT ![c] =
                               [k \in 1..Len(channel_id_list) |->
                                   ChannelRecord(channel_id_list[k])]]
    /\ m_chan_pc' = [m_chan_pc EXCEPT ![c] = "transform"]
    /\ UNCHANGED <<m_pc, m_query, m_search_data, m_comm_pc, m_comm_val,
                   m_comment_df, m_result, m_yielded, m_writes, KV_STORE>>
    /\ UNCHANGED mainOthers

\* the node extract_channel_data, its request raising HttpError: no items
MainExtractChannelsHttpError(c) ==
    /\ m_chan_pc[c] = "extract"
    /\ m_search_data[c] # <<>>
    /\ \E channel_id_list \in ChannelIdLists(m_search_data[c]) :
          ~JoinRaises(IdsOf(channel_id_list))
    /\ m_chan_val' = [m_chan_val EXCEPT ![c] = <<>>]
    /\ m_chan_pc' = [m_chan_pc EXCEPT ![c] = "transform"]
    /\ UNCHANGED <<m_pc, m_query, m_search_data, m_comm_pc, m_comm_val,
                   m_comment_df, m_result, m_yielded, m_writes, KV_STORE>>
    /\ UNCHANGED mainOthers

\* the node extract_channel_data raises TypeError at the join of a sublist
\* that holds None: the graph runner logs the error, the node yields nothing
\* and the chain ends without a store
MainExtractChannelsTypeError(c) ==
    /\ m_chan_pc[c] = "extract"
    /\ \E channel_id_list \in ChannelIdLists(m_search_data[c]) :
          JoinRaises(IdsOf(channel_id_list))
    /\ m_chan_pc' = [m_chan_pc EXCEPT ![c] = "error"]
    /\ UNCHANGED <<m_pc, m_query, m_search_data, m_chan_val, m_comm_pc, m_comm_val,
                   m_comment_df, m_result, m_yielded, m_writes, KV_STORE>>
    /\ UNCHANGED mainOthers

\* the node transform_channel_data yields ("channel_data", df)
MainTransformChannels(c) ==
    /\ m_chan_pc[c] = "transform"
    /\ LET yielded == TransformChannelData(m_chan_val[c], m_query[c])
       IN  /\ yielded.exc = "none"
           /\ m_chan_val' = [m_chan_val EXCEPT ![c] = yielded.df]
           /\ m_yielded' = [m_yielded EXCEPT ![c]["channel_data"] = Stored(yielded.df)]
    /\ m_chan_pc' = [m_chan_pc EXCEPT ![c] = "store"]
    /\ UNCHANGED <<m_pc, m_query, m_search_data, m_comm_pc, m_comm_val,
                   m_comment_df, m_result, m_writes, KV_STORE>>
    /\ UNCHANGED mainOthers

\* the node transform_channel_data raises: the graph runner logs the error,
\* the node yields nothing and the chain ends without a store
MainTransformChannelsRaises(c) ==
    /\ m_chan_pc[c] = "transform"
    /\ TransformChannelData(m_chan_val[c], m_query[c]).exc # "none"
    /\ m_chan_pc' = [m_chan_pc EXCEPT ![c] = "error"]
    /\ UNCHANGED <<m_pc, m_query, m_search_data, m_chan_val, m_comm_pc, m_comm_val,
                   m_comment_df, m_result, m_yielded, m_writes, KV_STORE>>
    /\ UNCHANGED mainOthers

\* store_results("channel_data", df)
MainStoreChannels(c) ==
    /\ m_chan_pc[c] = "store"
    /\ KV_STORE' = [KV_STORE EXCEPT !["channel_data"] = Stored(m_chan_val[c])]
    /\ m_writes' = [m_writes EXCEPT ![c]["channel_data"] = @ + 1]
    /\ m_chan_pc' = [m_chan_pc EXCEPT ![c] = "end"]
    /\ UNCHANGED <<m_pc, m_query, m_search_data, m_chan_val, m_comm_pc, m_comm_val,
                   m_comment_df, m_result, m_yielded>>
    /\ UNCHANGED mainOthers

\* the node extract_comment_thread_data: the videos are grouped and sampled,
\* every fetch succeeds or raises HttpError
MainExtractComments(c) ==
    /\ m_comm_pc[c] = "extract"
    /\ \E selected \in SelectedVideos(GroupByChannel(m_search_data[c], <<>>)) :
       \E ok \in [1..Len(selected) -> BOOLEAN] :
          m_comm_val' = [m_comm_val EXCEPT ![c] = FetchedItems(selected, ok)]
    /\ m_comm_pc' = [m_comm_pc EXCEPT ![c] = "transform"]
    /\ UNCHANGED <<m_pc, m_query, m_search_data, m_chan_pc, m_chan_val,
                   m_comment_df, m_result, m_yielded, m_writes, KV_STORE>>
    /\ UNCHANGED mainOthers

\* the node transform_comment_thread_data yields ("comment_thread_data", df)
MainTransformComments(c) ==
    /\ m_comm_pc[c] = "transform"
    /\ LET df == TransformCommentThreadData(m_comm_val[c])
       IN  /\ m_comm_val' = [m_comm_val EXCEPT ![c] = df]
           /\ m_yielded' = [m_yielded EXCEPT ![c]["comment_thread_data"] = Stored(df)]
    /\ m_comm_pc' = [m_comm_pc EXCEPT ![c] = "store"]
    /\ UNCHANGED <<m_pc, m_query, m_search_data, m_chan_pc, m_chan_val,
                   m_comment_df, m_result, m_writes, KV_STORE>>
    /\ UNCHANGED mainOthers

\* store_results("comment_thread_data", df)
MainStoreComments(c) ==
    /\ m_comm_pc[c] = "store"
    /\ KV_STORE' = [KV_STORE EXCEPT !["comment_thread_data"] = Stored(m_comm_val[c])]
    /\ m_writes' = [m_writes EXCEPT ![c]["comment_thread_data"] = @ + 1]
    /\ m_comm_pc' = [m_comm_pc EXCEPT ![c] = "end"]
    /\ UNCHANGED <<m_pc, m_query, m_search_data, m_chan_pc, m_chan_val, m_comm_val,
                   m_comment_df, m_result, m_yielded>>
    /\ UNCHANGED mainOthers

\* every node of the graph has ended
RunReturned(c) ==
    /\ m_pc[c] = "branches"
    /\ m_chan_pc[c] \in {"end", "error"}
    /\ m_comm_pc[c] \in {"end", "error"}

\* bonobo.run has returned; transform_data reads KV_STORE["comment_thread_data"]
MainReadComments(c) ==
    /\ RunReturned(c)
    /\ KV_STORE["comment_thread_data"].present
    /\ m_comment_df' = [m_comment_df EXCEPT ![c] = KV_STORE["comment_thread_data"].df]
    /\ m_pc' = [m_pc EXCEPT ![c] = "read_channels"]
    /\ UNCHANGED <<m_query, m_search_data, m_chan_pc, m_chan_val, m_comm_pc,
                   m_comm_val, m_result, m_yielded, m_writes, KV_STORE>>
    /\ UNCHANGED mainOthers

\* transform_data reads KV_STORE["channel_data"], combines and returns
MainCombine(c) ==
    /\ m_pc[c] = "read_channels"
    /\ KV_STORE["channel_data"].present
    /\ m_result' = [m_result EXCEPT ![c] =
                       Combine(KV_STORE["channel_data"].df, m_comment_df[c])]
    /\ m_pc' = [m_pc EXCEPT ![c] = "done"]
    /\ UNCHANGED <<m_query, m_search_data, m_chan_pc, m_chan_val, m_comm_pc,
                   m_comm_val, m_comment_df, m_yielded, m_writes, KV_STORE>>
    /\ UNCHANGED mainOthers

\* transform_data reads a key that nothing has stored: KeyError
MainKeyError(c) ==
    /\ \/ RunReturned(c) /\ ~KV_STORE["comment_thread_data"].present
       \/ m_pc[c] = "read_channels" /\ ~KV_STORE["channel_data"].present
    /\ m_pc' = [m_pc EXCEPT ![c] = "KeyError"]
    /\ UNCHANGED <<m_query, m_search_data, m_chan_pc, m_chan_val, m_comm_pc,
                   m_comm_val, m_comment_df, m_result, m_yielded, m_writes, KV_STORE>>
    /\ UNCHANGED mainOthers

-----------------------------------------------------------------------------
(* Specifications *)

\* fuzzy_similarity on every pair of bounded strings
InitFuzzy ==
    /\ FuzzyInit
    /\ SearchIdle /\ CommentIdle /\ StoreIdle /\ RankIdle /\ MainIdle
    /\ ChannelIdle /\ SentimentIdle
NextFuzzy == FuzzyCall
SpecFuzzy == InitFuzzy /\ [][NextFuzzy]_vars

\* extract_search_data against every upstream behaviour
InitSearch ==
    /\ SearchInit
    /\ FuzzyIdle /\ CommentIdle /\ StoreIdle /\ RankIdle /\ MainIdle
    /\ ChannelIdle /\ SentimentIdle
NextSearch ==
    \/ SearchCapBreak
    \/ SearchPageWithToken
    \/ SearchLastPage
    \/ SearchHttpError
    \/ SearchYield
SpecSearch == InitSearch /\ [][NextSearch]_vars

\* extract_comment_thread_data on every bounded search_data
InitComment ==
    /\ CommentInit
    /\ FuzzyIdle /\ SearchIdle /\ StoreIdle /\ RankIdle /\ MainIdle
    /\ ChannelIdle /\ SentimentIdle
NextComment ==
    \/ CommentBuild
    \/ CommentSample
    \/ CommentTakeAll
    \/ CommentFetchOk
    \/ CommentFetchHttpError
    \/ CommentChannelDone
    \/ CommentYield
SpecComment == InitComment /\ [][NextComment]_vars

\* transform_channel_data and transform_data on every bounded input
InitRank ==
    /\ RankInit /\ StoreWithComments
    /\ FuzzyIdle /\ SearchIdle /\ CommentIdle /\ MainIdle
    /\ ChannelIdle /\ SentimentIdle
NextRank ==
    \/ RankStoreChannel
    \/ RankCombine
SpecRank == InitRank /\ [][NextRank]_vars

\* calls of main with distinct queries, run one after another or interleaved
Init ==
    /\ MainInit /\ StoreIdle
    /\ FuzzyIdle /\ SearchIdle /\ CommentIdle /\ RankIdle
    /\ ChannelIdle /\ SentimentIdle
Next ==
    \E c \in Calls :
        \/ MainStart(c)
        \/ MainSearch(c)
        \/ MainExtractChannels(c)
        \/ MainExtractChannelsHttpError(c)
        \/ MainExtractChannelsTypeError(c)
        \/ MainTransformChannels(c)
        \/ MainTransformChannelsRaises(c)
        \/ MainStoreChannels(c)
        \/ MainExtractComments(c)
        \/ MainTransformComments(c)
        \/ MainStoreComments(c)
        \/ MainReadComments(c)
        \/ MainCombine(c)
        \/ MainKeyError(c)
Spec == Init /\ [][Next]_vars

\* extract_channel_data on every bounded search_data, against every upstream
\* behaviour
InitChannel ==
    /\ ChannelInit
    /\ FuzzyIdle /\ SearchIdle /\ CommentIdle /\ StoreIdle /\ RankIdle /\ MainIdle
    /\ SentimentIdle
NextChannel ==
    \/ ChannelBuild
    \/ ChannelSublist
    \/ ChannelJoinTypeError
    \/ ChannelPageWithToken
    \/ ChannelLastPage
    \/ ChannelHttpError
    \/ ChannelYield
SpecChannel == InitChannel /\ [][NextChannel]_vars

\* the same, the extractor never stopping while it has a step to take (it
\* runs in a thread of its own and every request returns or raises)
SpecChannelLive == InitChannel /\ [][NextChannel]_vars /\ WF_vars(NextChannel)

\* transform_comment_thread_data on every bounded comment_thread_data
InitSentiment ==
    /\ SentimentInit
    /\ FuzzyIdle /\ SearchIdle /\ CommentIdle /\ StoreIdle /\ RankIdle /\ MainIdle
    /\ ChannelIdle
NextSentiment == SentimentTransform
SpecSentiment == InitSentiment /\ [][NextSentiment]_vars

-----------------------------------------------------------------------------
(* Properties of extract_search_data, under SpecSearch *)

\* C1: extract_search_data never issues more than MAX_PAGES search requests
\* in one call, whatever the upstream answers (a token on every response,
\* any mix of successful and failing requests).
C1_PageCap == s_requests <= MAX_PAGES

\* C1 happens: a finished call that issued MAX_PAGES requests, every one of
\* which was answered with a continuation token
C1_Witness ==
    /\ s_pc = "done"
    /\ s_requests = MAX_PAGES
    /\ Len(s_response_list) = MAX_PAGES
    /\ \A k \in 1..Len(s_response_list) : s_response_list[k].nextPageToken # None

-----------------------------------------------------------------------------
(* Properties of extract_comment_thread_data, under SpecComment *)

\* the channels of search_data, the distinct videos a channel contributes,
\* and the number of fetch calls issued for a channel
SearchChannels == {c_search_data[k][2] : k \in 1..Len(c_search_data)}
DistinctVideos(channel_id) ==
    {c_search_data[k][1] : k \in {n \in 1..Len(c_search_data) :
                                     c_search_data[n][2] = channel_id}}
CallsFor(channel_id) ==
    Cardinality({k \in 1..Len(c_calls) : c_calls[k][1] = channel_id})
Min(a, b) == IF a < b THEN a ELSE b

\* C2: for every channel of the search results exactly min(v, 2) fetch calls
\* are issued, v the number of distinct videos the channel contributes, and
\* every fetched video is one of the channel's (so the total number of calls
\* is the sum of min(v, 2) over the channels).
C2_CallsPerChannel ==
    c_pc = "done" =>
        /\ \A ch \in SearchChannels :
              CallsFor(ch) = Min(Cardinality(DistinctVideos(ch)), SampleSize)
        /\ \A k \in 1..Len(c_calls) : c_calls[k][2] \in DistinctVideos(c_calls[k][1])
        /\ \A k \in 1..Len(c_calls) : c_calls[k][1] \in SearchChannels

-----------------------------------------------------------------------------
(* Properties of transform_data, under SpecRank *)

ChannelIds == {KV_STORE["channel_data"].df[k].Channel_Id :
                  k \in 1..Len(KV_STORE["channel_data"].df)}
SentimentIds == {KV_STORE["comment_thread_data"].df[k].Channel_Id :
                    k \in 1..Len(KV_STORE["comment_thread_data"].df)}
ResultIds == {r_result.df[k].Channel_Id : k \in 1..Len(r_result.df)}

\* C3: transform_data is an inner join on Channel_Id: a channel is in the
\* output iff it is in the channel table and in the sentiment table, and a
\* mismatch raises nothing.
C3_InnerJoin ==
    r_pc = "done" =>
        /\ r_result.exc = "none"
        /\ ResultIds = ChannelIds \cap SentimentIds

\* C3 happens: a channel of the channel table that the sentiment table lacks,
\* beside one that both hold
C3_Witness ==
    /\ r_pc = "done"
    /\ ChannelIds \ SentimentIds # {}
    /\ ResultIds # {}

\* the rank column name_rank is a dense descending rank of the column name
IsDenseRank(df, name, name_rank, kind) ==
    LET values == {df[k][name] : k \in 1..Len(df)}
        distinct == {k \in 1..Len(df) :
                        \A n \in 1..(k - 1) : ~ValueEq(kind, df[n][name], df[k][name])}
    IN  /\ \A i, j \in 1..Len(df) :
              /\ (df[i][name_rank] = df[j][name_rank])
                    <=> ValueEq(kind, df[i][name], df[j][name])
              /\ ValueLess(kind, df[j][name], df[i][name])
                    => df[i][name_rank] < df[j][name_rank]
        /\ {df[k][name_rank] : k \in 1..Len(df)} = 1..Cardinality(distinct)
        /\ \A k \in 1..Len(df) : df[k][name_rank] >= 1 /\ df[k][name_rank] <= Len(df)

\* C4: each of Videos_Rank, Subscribers_Rank, Score_Rank and Similarity_Rank
\* is a dense descending rank over the joined rows: equal rank iff equal
\* value, a larger value (as the column orders its values) a smaller rank,
\* and the ranks used are exactly 1..d for d distinct values.
C4_DenseRanks ==
    r_pc = "done" =>
        /\ IsDenseRank(r_result.df, "Videos", "Videos_Rank", "str")
        /\ IsDenseRank(r_result.df, "Subscribers", "Subscribers_Rank", "str")
        /\ IsDenseRank(r_result.df, "Score", "Score_Rank", "float")
        /\ IsDenseRank(r_result.df, "Similarity", "Similarity_Rank", "float")

\* C4 happens: three joined rows whose scores are two equal and one smaller
\* (as [10, 10, 5]) and whose score ranks are 1, 1, 2
C4_Witness ==
    /\ r_pc = "done"
    /\ Len(r_result.df) = 3
    /\ \E i, j, k \in 1..3 :
          /\ i # j /\ i # k /\ j # k
          /\ RatEq(r_result.df[i].Score, r_result.df[j].Score)
          /\ RatLess(r_result.df[k].Score, r_result.df[i].Score)
          /\ r_result.df[i].Score_Rank = 1
          /\ r_result.df[j].Score_Rank = 1
          /\ r_result.df[k].Score_Rank = 2

\* C5: every output row's Average_Rank is the sum of its four ranks divided
\* by 4, the rows are in ascending order of Average_Rank, and two tables that
\* each hold the same single channel give one row with every rank 1 and
\* Average_Rank 1.0.
C5_AverageRankOrder ==
    r_pc = "done" =>
        LET df == r_result.df
        IN  /\ \A k \in 1..Len(df) :
                  RatEq(df[k].Average_Rank,
                        Rat(df[k].Videos_Rank + df[k].Subscribers_Rank
                            + df[k].Score_Rank + df[k].Similarity_Rank, 4))
            /\ \A k \in 1..(Len(df) - 1) :
                  RatLeq(df[k].Average_Rank, df[k + 1].Average_Rank)
            /\ (/\ Len(KV_STORE["channel_data"].df) = 1
                /\ Len(KV_STORE["comment_thread_data"].df) = 1
                /\ ChannelIds = SentimentIds)
               => /\ Len(df) = 1
                  /\ df[1].Videos_Rank = 1 /\ df[1].Subscribers_Rank = 1
                  /\ df[1].Score_Rank = 1 /\ df[1].Similarity_Rank = 1
                  /\ RatEq(df[1].Average_Rank, Rat(1, 1))

\* C5 happens: an output whose rows differ in Average_Rank and were put in
\* another order than the join gave them
C5_Witness ==
    /\ r_pc = "done"
    /\ Len(r_result.df) >= 2
    /\ RatLess(r_result.df[1].Average_Rank, r_result.df[2].Average_Rank)
    /\ r_result.df[1].Channel_Id = "B"
    /\ r_result.df[2].Channel_Id = "A"

\* C6: Videos_Rank and Subscribers_Rank order the channels by the number
\* their videoCount and subscriberCount write: of two joined channels the
\* one with the larger count has the strictly smaller rank.  And records A
\* (videos 100, subscribers 1000, better similarity and score) and B (videos
\* 50, subscribers 2000) come out in the order A, B with A's Average_Rank
\* strictly less than B's.
C6_RanksByMagnitude ==
    r_pc = "done" =>
        LET df == r_result.df
        IN  /\ \A i, j \in 1..Len(df) :
                  /\ StrToInt(df[i].Videos) > StrToInt(df[j].Videos)
                        => df[i].Videos_Rank < df[j].Videos_Rank
                  /\ StrToInt(df[i].Subscribers) > StrToInt(df[j].Subscribers)
                        => df[i].Subscribers_Rank < df[j].Subscribers_Rank
            /\ (/\ Len(df) = 2
                /\ df[1].Channel_Id = "A" /\ df[2].Channel_Id = "B"
                /\ StrToInt(df[1].Videos) = 100 /\ StrToInt(df[2].Videos) = 50
                /\ StrToInt(df[1].Subscribers) = 1000
                /\ StrToInt(df[2].Subscribers) = 2000
                /\ RatLess(df[2].Similarity, df[1].Similarity)
                /\ RatLess(df[2].Score, df[1].Score))
               => RatLess(df[1].Average_Rank, df[2].Average_Rank)

-----------------------------------------------------------------------------
(* Properties of fuzzy_similarity, under SpecFuzzy *)

\* C9: for every query and text, a query with no word token and a non-empty
\* text included, fuzzy_similarity returns a value in [0, 100] and does not
\* raise.
C9_InRangeNoRaise ==
    f_pc \in {"returned", "raised"} =>
        /\ f_result.exc = "none"
        /\ 0 <= f_result.num
        /\ f_result.num <= 100 * f_result.den

\* C10: fuzzy_similarity returns 0 whenever the text is empty or has fewer
\* word tokens than the query.
C10_ZeroOnShortText ==
    (/\ f_pc \in {"returned", "raised"}
     /\ \/ f_str2 = <<>>
        \/ Len(FindallWords(f_str2)) < Len(FindallWords(f_str1)))
    => /\ f_result.exc = "none"
       /\ f_result.num = 0

\* C10 happens: a text of one word against a query of two words, the first of
\* which is that word
C10_Witness ==
    /\ f_pc = "returned"
    /\ Len(FindallWords(f_str2)) = 1
    /\ Len(FindallWords(f_str1)) = 2
    /\ Lower(FindallWords(f_str1)[1]) = Lower(FindallWords(f_str2)[1])
    /\ f_result.num = 0

-----------------------------------------------------------------------------
(* Properties of main and the KV_STORE hand-off, under Spec *)

\* C7: calls of main with different queries share no state: the table a call
\* returns is computed from the channel table and the sentiment table that
\* its own chains produced and stored, never from a table of the other call.
C7_IndependentQueries ==
    \A c \in Calls :
        (/\ m_pc[c] = "done"
         /\ \A key \in Keys : m_writes[c][key] = 1)
        => m_result[c] = Combine(m_yielded[c]["channel_data"].df,
                                 m_yielded[c]["comment_thread_data"].df)

\* C8: within one call the search node has finished before either chain
\* starts, each key is stored exactly once by the call's own chain, and
\* transform_data reads the keys only after both of these stores: it never
\* meets a missing key or a value that the call itself did not store.
C8_HandOff ==
    \A c \in Calls :
        /\ (m_chan_pc[c] # "wait" \/ m_comm_pc[c] # "wait")
              => m_pc[c] \notin {"idle", "search"}
        /\ \A key \in Keys : m_writes[c][key] <= 1
        /\ m_pc[c] # "KeyError"
        /\ m_pc[c] \in {"read_channels", "done"}
              => \A key \in Keys : m_writes[c][key] = 1

\* the lower-cased word tokens of the query and of the text
PatternWords == FindallWords(Lower(f_str1))
TextWords == FindallWords(Lower(f_str2))

\* the tokens p are consecutive tokens of t, from some position on
OccursIn(p, t) ==
    \E k \in 0..(Len(t) - Len(p)) : SubSeq(t, k + 1, k + Len(p)) = p

\* C11: when the query has a word token and its lower-cased tokens are
\* consecutive whole word tokens of the lower-cased text, at any position,
\* fuzzy_similarity returns exactly 100.
C11_ExactMatch ==
    (/\ f_pc \in {"returned", "raised"}
     /\ Len(PatternWords) >= 1
     /\ OccursIn(PatternWords, TextWords))
    => /\ f_result.exc = "none"
       /\ f_result.num = 100 * f_result.den

\* C11 happens: an upper-case query whose lower-cased token is the second
\* token of the text
C11_Witness ==
    /\ f_pc = "returned"
    /\ f_str1 = <<"A">>
    /\ f_str2 = <<"b", ".", "a">>
    /\ f_result.num = 100 * f_result.den

-----------------------------------------------------------------------------
(* Properties of extract_channel_data, under SpecChannel *)

\* C12: the items extract_channel_data yields hold at most one record for
\* each channelId, whatever the upstream answers (continuation tokens and
\* pages that repeat items included).
C12_Deduplicated ==
    ch_pc = "done" =>
        \A x, y \in BagToSet(ch_items) :
            /\ CopiesIn(x, ch_items) = 1
            /\ x # y => x.id # y.id

-----------------------------------------------------------------------------
(* Properties of the pipeline on responses with missing fields, under Spec *)

\* the search_data of call c holds a pair whose item had no channelId
LacksChannelId(c) ==
    \E k \in 1..Len(m_search_data[c]) : m_search_data[c][k][2] = None

\* C13: a call whose search response omits snippet.channelId of an item (and
\* whose query has a word token) runs through both extractors, both
\* transforms and the combiner without raising: no node of its graph ends in
\* an error and transform_data meets no missing key.
C13_MissingFieldsTolerated ==
    \A c \in Calls :
        (/\ FindallWords(m_query[c]) # <<>>
         /\ LacksChannelId(c))
        => /\ m_chan_pc[c] # "error"
           /\ m_comm_pc[c] # "error"
           /\ m_pc[c] # "KeyError"

-----------------------------------------------------------------------------
(* Properties of a failed search request, under SpecSearch *)

\* a search request of the call has failed: it was issued and added no
\* response
SearchFailed == s_requests > Len(s_response_list)

\* the number of items of the pages before page p
ItemsBefore(response_list, p) ==
    SumSeq([q \in 1..(p - 1) |-> Len(response_list[q].items)])

\* search_data is the (videoId, channelId) pairs of the pages of
\* response_list, in page order then item order
IsPagesInOrder(search_data, response_list) ==
    /\ Len(search_data) = ItemsBefore(response_list, Len(response_list) + 1)
    /\ \A p \in 1..Len(response_list) :
       \A k \in 1..Len(response_list[p].items) :
          search_data[ItemsBefore(response_list, p) + k]
             = <<response_list[p].items[k].videoId,
                 response_list[p].items[k].channelId>>

\* C14: once a search request has failed, extract_search_data issues no
\* further request (the failed one is not tried again), fetches no further
\* page, and its next step yields exactly the pairs of the pages fetched
\* before the failure, in page order then item order (none if the first
\* request failed).
C14_StopOnSearchFailure ==
    [][SearchFailed =>
          /\ s_requests' = s_requests
          /\ s_response_list' = s_response_list
          /\ s_pc' = "done"
          /\ IsPagesInOrder(s_search_data', s_response_list)]_vars

\* C14 happens: the third request failed after two pages of items, and the
\* call has yielded their three pairs
C14_Witness ==
    /\ s_pc = "done"
    /\ s_requests = 3
    /\ Len(s_response_list) = 2
    /\ Len(s_search_data) = 3
    /\ s_search_data[1] # s_search_data[2]

-----------------------------------------------------------------------------
(* Properties of a failed comment fetch, under SpecComment *)

\* the responses of the fetches of calls that were answered, in call order
RECURSIVE AnsweredResponses(_)
AnsweredResponses(calls) ==
    IF calls = <<>> THEN <<>>
    ELSE (IF Head(calls)[3] THEN <<CommentResponse(Head(calls)[2])>> ELSE <<>>)
         \o AnsweredResponses(Tail(calls))

\* C15: a failed comment-thread fetch is swallowed: when the extractor
\* yields, every channel has had a fetch issued for each of its selected
\* videos (two when more than two are listed, else as many as are listed),
\* whichever of them failed, and the output items are exactly the responses
\* of the answered fetches, in the order of the fetches.
C15_FailedFetchSwallowed ==
    c_pc = "done" =>
        /\ c_items = AnsweredResponses(c_calls)
        /\ \A k \in 1..Len(c_videos) :
              CallsFor(c_videos[k].channel_id)
                 = Min(Len(c_videos[k].video_list), SampleSize)
        /\ Len(c_calls) = SumSeq([k \in 1..Len(c_videos) |->
                                    Min(Len(c_videos[k].video_list), SampleSize)])

\* C15 happens: a fetch failed, the next fetch of the same channel and the
\* fetch of a later channel were issued and answered, and the output holds
\* their two responses only
C15_Witness ==
    /\ c_pc = "done"
    /\ Len(c_calls) = 3
    /\ ~c_calls[1][3] /\ c_calls[2][3] /\ c_calls[3][3]
    /\ c_calls[1][1] = c_calls[2][1]
    /\ c_calls[3][1] # c_calls[1][1]
    /\ Len(c_items) = 2

-----------------------------------------------------------------------------
(* Properties of the batches of extract_channel_data, under SpecChannel *)

\* the least integer not below n / k
Ceil(n, k) == (n + k - 1) \div k

\* the sublists that hold channel_id
PlacesOf(channel_id) ==
    {b \in 1..Len(ch_sublists) : channel_id \in ch_sublists[b]}

\* no request of the call was sent with a continuation token, that is, the
\* upstream has returned none
NoTokenReturned == \A k \in 1..Len(ch_requests) : ch_requests[k].pageToken = None

\* C16: the distinct channel ids of the search results are partitioned into
\* sublists of at most 10 ids, every id in exactly one sublist; every
\* request carries the ids of one sublist, so at most 10; and an extractor
\* that yields having been given no continuation token has issued
\* ceil(d / 10) requests for d distinct channels.
C16_BatchesOfTen ==
    /\ ch_pc \notin {"off", "start"} =>
          /\ \A b \in 1..Len(ch_sublists) :
                /\ Cardinality(ch_sublists[b]) >= 1
                /\ Cardinality(ch_sublists[b]) <= chunk_size
          /\ \A id \in ChannelIdSet(ch_search_data) : Cardinality(PlacesOf(id)) = 1
          /\ \A b \in 1..Len(ch_sublists) :
                ch_sublists[b] \subseteq ChannelIdSet(ch_search_data)
          /\ Len(ch_sublists) = Ceil(Cardinality(ChannelIdSet(ch_search_data)), chunk_size)
    /\ \A k \in 1..Len(ch_requests) :
          /\ Cardinality(ch_requests[k].id) <= chunk_size
          /\ \E b \in 1..Len(ch_sublists) : ch_requests[k].id = ch_sublists[b]
    /\ (ch_pc = "done" /\ NoTokenReturned) =>
          Len(ch_requests) = Ceil(Cardinality(ChannelIdSet(ch_search_data)), chunk_size)

\* C16 happens: more than 10 distinct channels, one of them listed twice,
\* fetched with two requests that returned one item for each channel
C16_Witness ==
    /\ ch_pc = "done"
    /\ NoTokenReturned
    /\ Cardinality(ChannelIdSet(ch_search_data)) > chunk_size
    /\ Len(ch_search_data) > Cardinality(ChannelIdSet(ch_search_data))
    /\ Len(ch_requests) = 2
    /\ BagCardinality(ch_items) = Cardinality(ChannelIdSet(ch_search_data))

-----------------------------------------------------------------------------
(* Properties of transform_comment_thread_data, under SpecSentiment *)

\* the threads of channel_id in the input, as <<response, thread>> places
ThreadsOf(channel_id) ==
    {pl \in (1..Len(t_items)) \X (1..2) :
        /\ pl[2] <= Len(t_items[pl[1]].items)
        /\ t_items[pl[1]].items[pl[2]].channelId = channel_id}

\* the comments of one thread (its top-level comment and each reply), and
\* the sum of their sentiment scores
CommentsIn(thread) == 1 + Len(thread.replies)
ScoreSumIn(thread) ==
    PerformSentimentAnalysis(thread.textOriginal)
    + SumSeq([k \in 1..Len(thread.replies) |-> PerformSentimentAnalysis(thread.replies[k])])

\* the sum of f over the threads of channel_id, response by response
ChannelTotal(channel_id, count) ==
    SumSeq([r \in 1..Len(t_items) |->
              SumSeq([k \in 1..Len(t_items[r].items) |->
                        IF t_items[r].items[k].channelId # channel_id THEN 0
                        ELSE IF count THEN CommentsIn(t_items[r].items[k])
                        ELSE ScoreSumIn(t_items[r].items[k])])])

\* C17: the dataframe has exactly one row for each channelId that has a
\* thread in the input and no other row; the row's Score is the sum of the
\* scores of all the channel's top-level comments and replies divided by
\* their number, and lies in [0, 1] (scores are in thousandths); a channel
\* without a comment has no row.
C17_MeanPerChannel ==
    t_pc = "done" =>
        /\ \A k \in 1..Len(t_df) : ThreadsOf(t_df[k].Channel_Id) # {}
        /\ \A i, j \in 1..Len(t_df) : i # j => t_df[i].Channel_Id # t_df[j].Channel_Id
        /\ \A ch \in Channels :
              ThreadsOf(ch) # {} => \E k \in 1..Len(t_df) : t_df[k].Channel_Id = ch
        /\ \A k \in 1..Len(t_df) :
              /\ RatEq(t_df[k].Score,
                       Rat(ChannelTotal(t_df[k].Channel_Id, FALSE),
                           ChannelTotal(t_df[k].Channel_Id, TRUE)))
              /\ RatLeq(Rat(0, 1), t_df[k].Score)
              /\ RatLeq(t_df[k].Score, Rat(1000, 1))

\* C17 happens: channel A has comments in threads of two responses, replies
\* among them, channel B has none, and the one row is A's with a mean
\* strictly between the two scores
C17_Witness ==
    /\ t_pc = "done"
    /\ Len(t_items) = 2
    /\ \A r \in 1..2 : \E pl \in ThreadsOf("A") : pl[1] = r
    /\ ThreadsOf("B") = {}
    /\ ChannelTotal("A", TRUE) >= 4
    /\ Len(t_df) = 1
    /\ t_df[1].Channel_Id = "A"
    /\ RatLess(Rat(0, 1), t_df[1].Score)
    /\ RatLess(t_df[1].Score, Rat(691, 1))

-----------------------------------------------------------------------------
(* Properties of the paging loop of extract_channel_data, under           *)
(* SpecChannelLive                                                        *)

\* the sublist that request k asked for
SublistOf(k) == CHOOSE b \in 1..Len(ch_sublists) : ch_sublists[b] = ch_requests[k].id

\* the requests issued for sublist b
RequestsFor(b) == {k \in 1..Len(ch_requests) : SublistOf(k) = b}

\* the items of the answers to the first n requests, in order
RECURSIVE AnswerItems(_)
AnswerItems(n) ==
    IF n = 0 THEN EmptyBag ELSE AnswerItems(n - 1) (+) ch_requests[n].items

\* the requests issued so far form, sublist after sublist, one paging loop
\* each: the first request of a sublist carries no pageToken and each later
\* one carries a token; a failed request is the last of its sublist; the
\* request after the last of a sublist is the first of the next sublist; and
\* data["items"] holds the items of every answer so far
PagingLoops ==
    /\ \A k \in 1..Len(ch_requests) :
          /\ SublistOf(k) = (IF k = 1 THEN 1
                             ELSE IF ch_requests[k].pageToken = None
                                  THEN SublistOf(k - 1) + 1
                                  ELSE SublistOf(k - 1))
          /\ (k > 1 /\ ~ch_requests[k - 1].ok) => ch_requests[k].pageToken = None
    /\ ch_items = AnswerItems(Len(ch_requests))

\* C18: for each sublist the paging loop goes on while the answers carry a
\* token and ends at the first answer without one or at the first failed
\* request; the items of the answers so far are kept and the next sublist is
\* requested, so that an extractor that yields has requested every sublist,
\* and, given one token for each sublist, has issued twice as many requests
\* as there are sublists; and, the upstream handing out finitely many tokens
\* for a sublist, the extractor ends.
C18_PagingLoop ==
    /\ [](/\ PagingLoops
          /\ ch_pc = "done" =>
                /\ \A b \in 1..Len(ch_sublists) : RequestsFor(b) # {}
                /\ (\A b \in 1..Len(ch_sublists) :
                       /\ Cardinality(RequestsFor(b)) = 2
                       /\ \A k \in RequestsFor(b) : ch_requests[k].ok)
                   => Len(ch_requests) = 2 * Len(ch_sublists))
    /\ <>(ch_pc \in {"done", "TypeError"})

\* C18 happens: two sublists, each answered with one token and then without
\* (four requests, every item returned twice)
C18_Witness ==
    /\ ch_pc = "done"
    /\ Len(ch_sublists) = 2
    /\ Len(ch_requests) = 4
    /\ \A k \in 1..4 : ch_requests[k].ok
    /\ \A b \in 1..2 : Cardinality(RequestsFor(b)) = 2
    /\ BagCardinality(ch_items) = 2 * Cardinality(ChannelIdSet(ch_search_data))

=============================================================================
